---- MODULE Spec2Model ----
(***************************************************************************)
(* Model of bot/parsers/connection_parser.py: ConnectionLifecycleParser.   *)
(* A log line is a sequence of lexical fragments; the four compiled        *)
(* regular expressions are modelled by what re.search does on such a       *)
(* sequence (leftmost start, greedy ".*", so the last identifier wins).    *)
(* The tracker state is the two dictionaries of the parser object and the  *)
(* voice channels of the guilds the bot knows.  The display name captured  *)
(* by the queue-join pattern only reaches the log and is left out.  A call *)
(* is one action: calls are awaited one after the other.                   *)
(***************************************************************************)
EXTENDS Integers, Sequences, FiniteSets, TLC

\* ------------------------------------------------------------------ bounds
NumPlayers == 2
MaxLineLen == 3
\* calls made in one behaviour
MaxCalls == 4
\* the most calls started when the calls run as coroutines
MaxStarts == 3

Players == 1..NumPlayers

\* server_key has the format guild_id_server_id; a key is <<guild_id, server_id>>
Keys == {<<1, 1>>, <<2, 1>>}

\* ------------------------------------------------------------ log lines
\* Fragments of a log line.  A fragment is <<kind, id>>; id is 0 for the
\* fragments that carry no identifier.
\*   JoinRequest : LogNet: Join request: /Game/Maps/world_0/World_0?...?Name=<n>
\*   PlatformPS5 : platformid=PS5:<id>
\*   EosId       : eosid=|<id>
\*   Registered  : LogOnline: Warning: Player |<id> successfully registered!
\*   CloseBunch  : UChannel::Close: Sending CloseBunch
\*   UidEosPipe  : UniqueId: EOS:|<id>
\*   UidEos      : UniqueId: EOS:<id>
\*   UidPS5      : UniqueId: PS5:|<id>  or  UniqueId: PS5:<id>
\*   Other       : any other text
NoIdKinds == {"JoinRequest", "CloseBunch", "Other"}
IdKinds == {"PlatformPS5", "EosId", "Registered", "UidEosPipe", "UidEos", "UidPS5"}

Fragments == (NoIdKinds \X {0}) \cup (IdKinds \X Players)

RECURSIVE SeqsUpTo(_)
SeqsUpTo(n) ==
    IF n = 0 THEN {<<>>}
    ELSE LET shorter == SeqsUpTo(n - 1)
         IN shorter \cup {Append(s, f) : s \in {t \in shorter : Len(t) = n - 1}, f \in Fragments}

Lines == SeqsUpTo(MaxLineLen)

NoMatch == 0

\* index of the first fragment of a kind in kinds, 0 if there is none
FirstIdx(line, kinds) ==
    LET hits == {i \in 1..Len(line) : line[i][1] \in kinds}
    IN IF hits = {} THEN 0 ELSE CHOOSE i \in hits : \A j \in hits : i <= j

\* index of the last fragment after position from of a kind in kinds, 0 if none
LastIdxAfter(line, from, kinds) ==
    LET hits == {i \in (from + 1)..Len(line) : line[i][1] \in kinds}
    IN IF hits = {} THEN 0 ELSE CHOOSE i \in hits : \A j \in hits : i >= j

\* head ".*" (alternative of identifier fragments): the captured identifier
SearchHeadThenId(line, head, idkinds) ==
    LET i == FirstIdx(line, {head})
        j == IF i = 0 THEN 0 ELSE LastIdxAfter(line, i, idkinds)
    IN IF j = 0 THEN NoMatch ELSE line[j][2]

\* the four compiled patterns, each by the player id its search captures
queue_join(line) == SearchHeadThenId(line, "JoinRequest", {"PlatformPS5", "EosId"})

player_joined(line) ==
    LET i == FirstIdx(line, {"Registered"})
    IN IF i = 0 THEN NoMatch ELSE line[i][2]

disconnect_post_join(line) == SearchHeadThenId(line, "CloseBunch", {"UidEosPipe"})

disconnect_pre_join(line) ==
    SearchHeadThenId(line, "CloseBunch", {"UidEosPipe", "UidEos", "UidPS5"})

\* what the four searches find in a line
lifecycle_patterns(line) ==
    [queue_join |-> queue_join(line),
     player_joined |-> player_joined(line),
     disconnect_post_join |-> disconnect_post_join(line),
     disconnect_pre_join |-> disconnect_pre_join(line)]

\* the search results of all lines of at most MaxLineLen fragments
LineMatches == {lifecycle_patterns(line) : line \in Lines}

\* ------------------------------------------------------------ tracker state
VARIABLES
    server_counts,    \* self.server_counts: key -> [queue_count, player_count]
    player_states,    \* self.player_states: key -> the four sets of player ids
    voice_channels,   \* guild id -> names of the guild's voice channels
    lastCall,         \* the call that returned last: its arguments, locals and result
    scenario,         \* how many lines of FormulaScenario the key ScenarioKey has consumed
    calls,            \* number of calls made so far
    tasks,            \* the parse_lifecycle_event coroutines and the await each one is at
    serial            \* the dictionaries the same lines give when each call runs to its end

vars == <<server_counts, player_states, voice_channels, lastCall, scenario, calls,
          tasks, serial>>

\* f"Players: {player_count} / Queue: {queue_count}"
Label(player_count, queue_count) == <<"Players: ", player_count, " / Queue: ", queue_count>>

\* 'players:' in channel.name.lower() or 'queue:' in channel.name.lower()
IsCounterChannel(name) == name[1] = "Players: "

\* the clamp left out
MaxNoClamp(a, b) == b

Max(a, b) == IF a >= b THEN a ELSE b

\* d[k] = v on a dictionary
DictSet(d, k, v) == [x \in DOMAIN d \cup {k} |-> IF x = k THEN v ELSE d[x]]

\* del d[k], for a key that is present
DictDel(d, k) == [x \in DOMAIN d \ {k} |-> d[x]]

EmptyCounts == [queue_count |-> 0, player_count |-> 0]

EmptyStates ==
    [players_queued |-> {}, players_joined |-> {},
     players_disconnected_pre |-> {}, players_disconnected_post |-> {}]

\* The world a call works on: the two dictionaries, the voice channels and
\* the display refreshes the call has requested so far.
WorldOf(counts, states, channels) ==
    [server_counts |-> counts, player_states |-> states,
     voice_channels |-> channels, refresh |-> <<>>]

World == WorldOf(server_counts, player_states, voice_channels)

initialize_server_tracking(w, server_key) ==
    [w EXCEPT
        !.server_counts = IF server_key \in DOMAIN @ THEN @
                          ELSE DictSet(@, server_key, EmptyCounts),
        !.player_states = IF server_key \in DOMAIN @ THEN @
                          ELSE DictSet(@, server_key, EmptyStates)]

\* One call renames every counter channel of the key's guild; the request is
\* recorded whether or not the guild is known.
update_voice_channels(w, server_key, player_count, queue_count) ==
    LET guild_id == server_key[1]
        new_name == Label(player_count, queue_count)
        requested == [w EXCEPT !.refresh = Append(@, <<player_count, queue_count>>)]
    IN IF guild_id \notin DOMAIN w.voice_channels THEN requested
       ELSE [requested EXCEPT !.voice_channels[guild_id] =
                [i \in DOMAIN @ |-> IF IsCounterChannel(@[i]) THEN new_name ELSE @[i]]]

update_live_counts(w, server_key) ==
    LET states == w.player_states[server_key]
        jq == Cardinality(states.players_queued)
        j2 == Cardinality(states.players_joined)
        d2 == Cardinality(states.players_disconnected_pre)
        queue_count == Max(0, jq - j2 - d2)
        d1 == Cardinality(states.players_disconnected_post)
        player_count == Max(0, j2 - d1)
        counted == [w EXCEPT !.server_counts[server_key] =
                        [queue_count |-> queue_count, player_count |-> player_count]]
    IN update_voice_channels(counted, server_key, player_count, queue_count)

\* the payload handed to EmbedFactory.build; player_name is never passed
create_join_embed(player_id) ==
    [event_type |-> "player_join", player_id |-> player_id, player_name |-> player_id]

\* the leave payload built with the join template
create_leave_embed_AsJoin(player_id) ==
    [event_type |-> "player_join", player_id |-> player_id, player_name |-> player_id]

create_leave_embed(player_id) ==
    [event_type |-> "player_leave", player_id |-> player_id, player_name |-> player_id]

\* the result of a call: the world it leaves, its locals and its return value
Outcome(w, pattern, player_id, event_type, ret) ==
    [w |-> w, pattern |-> pattern, player_id |-> player_id,
     event_type |-> event_type, ret |-> ret, raised |-> "None"]

\* a dictionary lookup of a key that is absent
KeyError(w) ==
    [w |-> w, pattern |-> "none", player_id |-> NoMatch,
     event_type |-> "None", ret |-> <<>>, raised |-> "KeyError"]

\* the queue counter bumped on every queue join instead of recomputed from the sets
QueueJoinBranch_Increment(w, server_key, player_id) ==
    LET added == [w EXCEPT !.player_states[server_key].players_queued = @ \cup {player_id}]
        counts == added.server_counts[server_key]
        bumped == [added EXCEPT !.server_counts[server_key].queue_count = @ + 1]
    IN Outcome(update_voice_channels(bumped, server_key, counts.player_count,
                                     counts.queue_count + 1),
               "queue_join", player_id, "jq", <<>>)

QueueJoinBranch(w, server_key, player_id) ==
    LET added == [w EXCEPT !.player_states[server_key].players_queued = @ \cup {player_id}]
    IN Outcome(update_live_counts(added, server_key), "queue_join", player_id, "jq", <<>>)

\* a registration is accepted only from a player who is in the queue
PlayerJoinedBranch_IfQueued(w, server_key, player_id) ==
    IF player_id \in w.player_states[server_key].players_queued
    THEN LET added == [w EXCEPT
                 !.player_states[server_key].players_joined = @ \cup {player_id}]
         IN Outcome(update_live_counts(added, server_key), "player_joined", player_id, "j2",
                    <<create_join_embed(player_id)>>)
    ELSE Outcome(w, "player_joined", player_id, "None", <<>>)

PlayerJoinedBranch(w, server_key, player_id) ==
    LET added == [w EXCEPT !.player_states[server_key].players_joined = @ \cup {player_id}]
    IN Outcome(update_live_counts(added, server_key), "player_joined", player_id, "j2",
               <<create_join_embed(player_id)>>)

\* the two membership tests in the other order: queued is asked before joined
DisconnectPostJoinBranch_QueuedFirst(w, server_key, player_id) ==
    IF player_id \in w.player_states[server_key].players_queued
    THEN LET added == [w EXCEPT
                 !.player_states[server_key].players_disconnected_pre = @ \cup {player_id}]
         IN Outcome(update_live_counts(added, server_key),
                    "disconnect_post_join", player_id, "d2", <<>>)
    ELSE IF player_id \in w.player_states[server_key].players_joined
    THEN LET added == [w EXCEPT
                 !.player_states[server_key].players_disconnected_post = @ \cup {player_id}]
         IN Outcome(added, "disconnect_post_join", player_id, "d1",
                    <<create_leave_embed(player_id)>>)
    ELSE Outcome(update_live_counts(w, server_key),
                 "disconnect_post_join", player_id, "None", <<>>)

\* the first membership test asks players_queued where it should ask players_joined
DisconnectPostJoinBranch_WrongSet(w, server_key, player_id) ==
    IF player_id \in w.player_states[server_key].players_queued
    THEN LET added == [w EXCEPT
                 !.player_states[server_key].players_disconnected_post = @ \cup {player_id}]
         IN Outcome(added, "disconnect_post_join", player_id, "d1",
                    <<create_leave_embed(player_id)>>)
    ELSE IF player_id \in w.player_states[server_key].players_queued
    THEN LET added == [w EXCEPT
                 !.player_states[server_key].players_disconnected_pre = @ \cup {player_id}]
         IN Outcome(update_live_counts(added, server_key),
                    "disconnect_post_join", player_id, "d2", <<>>)
    ELSE Outcome(update_live_counts(w, server_key),
                 "disconnect_post_join", player_id, "None", <<>>)

\* a leaver is taken out of players_joined, as a set of connected players would be kept
DisconnectPostJoinBranch_Discard(w, server_key, player_id) ==
    IF player_id \in w.player_states[server_key].players_joined
    THEN LET added == [w EXCEPT
                 !.player_states[server_key].players_disconnected_post = @ \cup {player_id},
                 !.player_states[server_key].players_joined = @ \ {player_id}]
         IN Outcome(added, "disconnect_post_join", player_id, "d1",
                    <<create_leave_embed(player_id)>>)
    ELSE IF player_id \in w.player_states[server_key].players_queued
    THEN LET added == [w EXCEPT
                 !.player_states[server_key].players_disconnected_pre = @ \cup {player_id}]
         IN Outcome(update_live_counts(added, server_key),
                    "disconnect_post_join", player_id, "d2", <<>>)
    ELSE Outcome(update_live_counts(w, server_key),
                 "disconnect_post_join", player_id, "None", <<>>)

DisconnectPostJoinBranch(w, server_key, player_id) ==
    IF player_id \in w.player_states[server_key].players_joined
    THEN LET added == [w EXCEPT
                 !.player_states[server_key].players_disconnected_post = @ \cup {player_id}]
         IN Outcome(added, "disconnect_post_join", player_id, "d1",
                    <<create_leave_embed(player_id)>>)
    ELSE IF player_id \in w.player_states[server_key].players_queued
    THEN LET added == [w EXCEPT
                 !.player_states[server_key].players_disconnected_pre = @ \cup {player_id}]
         IN Outcome(update_live_counts(added, server_key),
                    "disconnect_post_join", player_id, "d2", <<>>)
    ELSE Outcome(update_live_counts(w, server_key),
                 "disconnect_post_join", player_id, "None", <<>>)

\* the "never joined" half of the condition left out
DisconnectPreJoinBranch_QueuedOnly(w, server_key, player_id) ==
    IF player_id \in w.player_states[server_key].players_queued
    THEN LET added == [w EXCEPT
                 !.player_states[server_key].players_disconnected_pre = @ \cup {player_id}]
         IN Outcome(update_live_counts(added, server_key),
                    "disconnect_pre_join", player_id, "d2", <<>>)
    ELSE Outcome(w, "disconnect_pre_join", player_id, "None", <<>>)

\* the test that the player is in the queue is left out
DisconnectPreJoinBranch_NotJoinedOnly(w, server_key, player_id) ==
    IF player_id \notin w.player_states[server_key].players_joined
    THEN LET added == [w EXCEPT
                 !.player_states[server_key].players_disconnected_pre = @ \cup {player_id}]
         IN Outcome(update_live_counts(added, server_key),
                    "disconnect_pre_join", player_id, "d2", <<>>)
    ELSE Outcome(w, "disconnect_pre_join", player_id, "None", <<>>)

DisconnectPreJoinBranch(w, server_key, player_id) ==
    IF /\ player_id \in w.player_states[server_key].players_queued
       /\ player_id \notin w.player_states[server_key].players_joined
    THEN LET added == [w EXCEPT
                 !.player_states[server_key].players_disconnected_pre = @ \cup {player_id}]
         IN Outcome(update_live_counts(added, server_key),
                    "disconnect_pre_join", player_id, "d2", <<>>)
    ELSE Outcome(w, "disconnect_pre_join", player_id, "None", <<>>)

\* the registration pattern is tried before the queue-join pattern
parse_lifecycle_event_JoinedFirst(w0, found, server_key) ==
    LET w == initialize_server_tracking(w0, server_key)
    IN IF server_key \notin DOMAIN w.player_states \cap DOMAIN w.server_counts
       THEN KeyError(w)
       ELSE IF found.player_joined # NoMatch
       THEN PlayerJoinedBranch(w, server_key, found.player_joined)
       ELSE IF found.queue_join # NoMatch
       THEN QueueJoinBranch(w, server_key, found.queue_join)
       ELSE IF found.disconnect_post_join # NoMatch
       THEN DisconnectPostJoinBranch(w, server_key, found.disconnect_post_join)
       ELSE IF found.disconnect_pre_join # NoMatch
       THEN DisconnectPreJoinBranch(w, server_key, found.disconnect_pre_join)
       ELSE Outcome(w, "none", NoMatch, "None", <<>>)

\* the counters recomputed and the display refreshed also when no pattern matches
parse_lifecycle_event_AlwaysUpdate(w0, found, server_key) ==
    LET w == initialize_server_tracking(w0, server_key)
    IN IF server_key \notin DOMAIN w.player_states \cap DOMAIN w.server_counts
       THEN KeyError(w)
       ELSE IF found.queue_join # NoMatch
       THEN QueueJoinBranch(w, server_key, found.queue_join)
       ELSE IF found.player_joined # NoMatch
       THEN PlayerJoinedBranch(w, server_key, found.player_joined)
       ELSE IF found.disconnect_post_join # NoMatch
       THEN DisconnectPostJoinBranch(w, server_key, found.disconnect_post_join)
       ELSE IF found.disconnect_pre_join # NoMatch
       THEN DisconnectPreJoinBranch(w, server_key, found.disconnect_pre_join)
       ELSE Outcome(update_live_counts(w, server_key), "none", NoMatch, "None", <<>>)

\* parse_lifecycle_event on a line whose four searches give found
parse_lifecycle_event(w0, found, server_key) ==
    LET w == initialize_server_tracking(w0, server_key)
    IN IF server_key \notin DOMAIN w.player_states \cap DOMAIN w.server_counts
       THEN KeyError(w)
       ELSE IF found.queue_join # NoMatch
       THEN QueueJoinBranch(w, server_key, found.queue_join)
       ELSE IF found.player_joined # NoMatch
       THEN PlayerJoinedBranch(w, server_key, found.player_joined)
       ELSE IF found.disconnect_post_join # NoMatch
       THEN DisconnectPostJoinBranch(w, server_key, found.disconnect_post_join)
       ELSE IF found.disconnect_pre_join # NoMatch
       THEN DisconnectPreJoinBranch(w, server_key, found.disconnect_pre_join)
       ELSE Outcome(w, "none", NoMatch, "None", <<>>)

\* the stored dictionary itself is returned
get_live_counts_NoCopy(w0, server_key) ==
    LET w == initialize_server_tracking(w0, server_key)
    IN IF server_key \notin DOMAIN w.server_counts
       THEN [w |-> w, ret |-> <<>>, raised |-> "KeyError", is_copy |-> FALSE]
       ELSE [w |-> w, ret |-> <<w.server_counts[server_key]>>, raised |-> "None",
             is_copy |-> FALSE]

\* get_live_counts: the world it leaves and what it returns; is_copy says that
\* the returned dictionary is a new object (.copy()), not the stored one
get_live_counts(w0, server_key) ==
    LET w == initialize_server_tracking(w0, server_key)
    IN IF server_key \notin DOMAIN w.server_counts
       THEN [w |-> w, ret |-> <<>>, raised |-> "KeyError", is_copy |-> TRUE]
       ELSE [w |-> w, ret |-> <<w.server_counts[server_key]>>, raised |-> "None",
             is_copy |-> TRUE]

\* both dictionaries are cleared, whatever the key
reset_server_counts_ClearAll(w, server_key) ==
    [w |-> [w EXCEPT !.server_counts = <<>>, !.player_states = <<>>],
     raised |-> "None"]

\* only the counters are deleted; the four sets of the key survive the reset
reset_server_counts_CountsOnly(w, server_key) ==
    [w |-> [w EXCEPT
               !.server_counts = IF server_key \in DOMAIN @ THEN DictDel(@, server_key) ELSE @],
     raised |-> "None"]

\* reset_server_counts: both deletions are guarded, so neither can raise
reset_server_counts(w, server_key) ==
    [w |-> [w EXCEPT
               !.server_counts = IF server_key \in DOMAIN @ THEN DictDel(@, server_key) ELSE @,
               !.player_states = IF server_key \in DOMAIN @ THEN DictDel(@, server_key) ELSE @],
     raised |-> "None"]

\* ------------------------------------------------- the concrete scenario
Line(kind1, id1, kind2, id2) == <<<<kind1, id1>>, <<kind2, id2>>>>

\* QueueJoin(A), QueueJoin(B), PlayerJoined(A), disconnect A for A, disconnect A for B
FormulaScenario ==
    <<Line("JoinRequest", 0, "EosId", 1),
      Line("JoinRequest", 0, "EosId", 2),
      <<<<"Registered", 1>>>>,
      Line("CloseBunch", 0, "UidEosPipe", 1),
      Line("CloseBunch", 0, "UidEosPipe", 2)>>

ScenarioKey == <<1, 1>>

ScenarioFound == [i \in 1..Len(FormulaScenario) |-> lifecycle_patterns(FormulaScenario[i])]

\* no line has been applied to the key since it was created or reset
Fresh(server_key) ==
    \/ server_key \notin DOMAIN player_states \cup DOMAIN server_counts
    \/ /\ server_key \in DOMAIN player_states \cap DOMAIN server_counts
       /\ player_states[server_key] = EmptyStates
       /\ server_counts[server_key] = EmptyCounts

ScenarioAfterParse(server_key, found) ==
    IF server_key # ScenarioKey THEN scenario
    ELSE IF /\ scenario < Len(FormulaScenario)
            /\ found = ScenarioFound[scenario + 1]
            /\ scenario > 0 \/ Fresh(server_key)
    THEN scenario + 1
    ELSE 0

\* ------------------------------------------------------------------ actions
\* The bot knows guild 1, which has one counter channel; guild 2 is unknown to it.
KnownGuilds == [guild_id \in {1} |-> <<<<"General">>, Label(0, 0)>>]

\* the coroutines of parse_lifecycle_event the event loop can hold at a time
Tasks == {1, 2}

\* a coroutine that has not been started, or has returned
IdleTask ==
    [pc |-> "idle", server_key |-> <<0, 0>>, pattern |-> "none", player_id |-> NoMatch,
     event_type |-> "None", ret |-> <<>>, label |-> <<>>]

SerialOf(w) == [server_counts |-> w.server_counts, player_states |-> w.player_states]

Init ==
    /\ server_counts = <<>>
    /\ player_states = <<>>
    /\ voice_channels = KnownGuilds
    /\ lastCall = [op |-> "init", server_key |-> <<0, 0>>, pattern |-> "none",
                   player_id |-> NoMatch, event_type |-> "None", ret |-> <<>>,
                   refresh |-> <<>>, raised |-> "None", repeat |-> FALSE,
                   first |-> <<"none", NoMatch>>, several |-> FALSE, is_copy |-> TRUE]
    /\ scenario = 0
    /\ calls = 0
    /\ tasks = [t \in Tasks |-> IdleTask]
    /\ serial = SerialOf(WorldOf(<<>>, <<>>, KnownGuilds))

\* the patterns that match a line
Matched(found) ==
    {p \in {"queue_join", "player_joined", "disconnect_post_join", "disconnect_pre_join"} :
        found[p] # NoMatch}

\* the first pattern, in the order queue join, player joined, disconnect A,
\* disconnect B, that matches a line, and the id it captures
FirstMatch(found) ==
    IF found.queue_join # NoMatch THEN <<"queue_join", found.queue_join>>
    ELSE IF found.player_joined # NoMatch THEN <<"player_joined", found.player_joined>>
    ELSE IF found.disconnect_post_join # NoMatch
    THEN <<"disconnect_post_join", found.disconnect_post_join>>
    ELSE IF found.disconnect_pre_join # NoMatch
    THEN <<"disconnect_pre_join", found.disconnect_pre_join>>
    ELSE <<"none", NoMatch>>

\* every call counts towards MaxCalls
Called == calls < MaxCalls /\ calls' = calls + 1

ParseLifecycleEvent(server_key, found) ==
    /\ Called
    /\ \E out \in {parse_lifecycle_event(World, found, server_key)} :
          /\ server_counts' = out.w.server_counts
          /\ player_states' = out.w.player_states
          /\ voice_channels' = out.w.voice_channels
          /\ lastCall' = [op |-> "parse_lifecycle_event", server_key |-> server_key,
                          pattern |-> out.pattern, player_id |-> out.player_id,
                          event_type |-> out.event_type, ret |-> out.ret,
                          refresh |-> out.w.refresh, raised |-> out.raised,
                          \* the call before was a parse of the same key with the same match
                          repeat |-> /\ lastCall.op = "parse_lifecycle_event"
                                     /\ lastCall.server_key = server_key
                                     /\ lastCall.pattern = out.pattern
                                     /\ lastCall.player_id = out.player_id,
                          first |-> FirstMatch(found),
                          several |-> Cardinality(Matched(found)) > 1,
                          is_copy |-> TRUE]
          /\ scenario' = ScenarioAfterParse(server_key, found)
          /\ UNCHANGED <<tasks, serial>>

GetLiveCounts(server_key) ==
    /\ Called
    /\ \E out \in {get_live_counts(World, server_key)} :
          /\ server_counts' = out.w.server_counts
          /\ player_states' = out.w.player_states
          /\ lastCall' = [op |-> "get_live_counts", server_key |-> server_key,
                          pattern |-> "none", player_id |-> NoMatch,
                          event_type |-> "None", ret |-> out.ret,
                          refresh |-> out.w.refresh, raised |-> out.raised,
                          repeat |-> FALSE, first |-> <<"none", NoMatch>>,
                          several |-> FALSE, is_copy |-> out.is_copy]
          /\ UNCHANGED <<voice_channels, scenario, tasks, serial>>

\* The caller writes into the dictionary get_live_counts has just returned to
\* it.  The stored counters follow only if that dictionary is the stored one.
CallerEditsReturned ==
    /\ lastCall.op = "get_live_counts"
    /\ lastCall.ret # <<>>
    /\ lastCall' = [lastCall EXCEPT !.op = "caller_edit", !.ret[1].queue_count = @ + 1]
    /\ server_counts' =
          IF lastCall.is_copy \/ lastCall.server_key \notin DOMAIN server_counts
          THEN server_counts
          ELSE [server_counts EXCEPT ![lastCall.server_key].queue_count = @ + 1]
    /\ UNCHANGED <<player_states, voice_channels, scenario, calls, tasks, serial>>

ResetServerCounts(server_key) ==
    /\ Called
    /\ \E out \in {reset_server_counts(World, server_key)} :
          /\ server_counts' = out.w.server_counts
          /\ player_states' = out.w.player_states
          /\ lastCall' = [op |-> "reset_server_counts", server_key |-> server_key,
                          pattern |-> "none", player_id |-> NoMatch,
                          event_type |-> "None", ret |-> <<>>,
                          refresh |-> out.w.refresh, raised |-> out.raised,
                          repeat |-> FALSE, first |-> <<"none", NoMatch>>,
                          several |-> FALSE, is_copy |-> TRUE]
          /\ scenario' = IF server_key = ScenarioKey THEN 0 ELSE scenario
          /\ UNCHANGED <<voice_channels, tasks, serial>>

Next ==
    \/ \E server_key \in Keys, found \in LineMatches : ParseLifecycleEvent(server_key, found)
    \/ \E server_key \in Keys : GetLiveCounts(server_key)
    \/ \E server_key \in Keys : ResetServerCounts(server_key)
    \/ CallerEditsReturned

Spec == Init /\ [][Next]_vars

\* ---- the calls as coroutines that switch at their awaits ----
\* parse_lifecycle_event runs from its start to its first await without a
\* switch.  The awaits that can hand control to another coroutine are
\* channel.edit (line 179) and EmbedFactory.build (lines 200 and 218).

\* a disconnect is classified again, against the sets as they are after the await
Resumed_Reclassify(w, task) ==
    LET again == IF task.pattern = "disconnect_post_join"
                 THEN DisconnectPostJoinBranch(w, task.server_key, task.player_id).w
                 ELSE w
    IN update_voice_channels(again, task.server_key, task.label[1], task.label[2])

\* channel.edit has completed: the channel carries the name the call computed
\* before the await
Resumed(w, task) ==
    update_voice_channels(w, task.server_key, task.label[1], task.label[2])

\* what a step of a coroutine leaves in lastCall
StepOf(op, task, refresh) ==
    [op |-> op, server_key |-> task.server_key, pattern |-> task.pattern,
     player_id |-> task.player_id, event_type |-> task.event_type, ret |-> task.ret,
     refresh |-> refresh, raised |-> "None", repeat |-> FALSE,
     first |-> <<task.pattern, task.player_id>>, several |-> FALSE, is_copy |-> TRUE]

\* A call starts and runs to its first await: the searches, the membership
\* tests, the insertion and the store of the counters.  It awaits channel.edit
\* when the counter channel of a known guild has another name than the new one,
\* then EmbedFactory.build when it returns a notification; with neither it
\* returns at once.
StartParse(t, server_key, found) ==
    /\ tasks[t].pc = "idle"
    /\ \A u \in Tasks : u < t => tasks[u].pc # "idle"
    /\ calls < MaxStarts
    /\ calls' = calls + 1
    /\ \E out \in {parse_lifecycle_event(World, found, server_key)},
          seq \in {parse_lifecycle_event(
                      WorldOf(serial.server_counts, serial.player_states, KnownGuilds),
                      found, server_key)} :
          LET pc == IF out.w.voice_channels # voice_channels THEN "rename"
                    ELSE IF out.ret # <<>> THEN "embed"
                    ELSE "idle"
              task == [pc |-> pc, server_key |-> server_key, pattern |-> out.pattern,
                       player_id |-> out.player_id, event_type |-> out.event_type,
                       ret |-> out.ret,
                       label |-> IF pc = "rename" THEN out.w.refresh[1] ELSE <<>>]
          IN /\ server_counts' = out.w.server_counts
             /\ player_states' = out.w.player_states
             /\ tasks' = [tasks EXCEPT ![t] = IF pc = "idle" THEN IdleTask ELSE task]
             /\ lastCall' = StepOf(IF pc = "idle" THEN "parse_lifecycle_event"
                                   ELSE "parse_start", task, out.w.refresh)
             /\ serial' = SerialOf(seq.w)
             /\ UNCHANGED <<voice_channels, scenario>>

\* channel.edit completes and the call goes on to build its notification, or
\* returns None
RenameDone(t) ==
    LET w == Resumed(World, tasks[t])
        pc == IF tasks[t].ret # <<>> THEN "embed" ELSE "idle"
    IN /\ tasks[t].pc = "rename"
       /\ server_counts' = w.server_counts
       /\ player_states' = w.player_states
       /\ voice_channels' = w.voice_channels
       /\ tasks' = [tasks EXCEPT ![t] =
                        IF pc = "idle" THEN IdleTask
                        ELSE [tasks[t] EXCEPT !.pc = pc, !.label = <<>>]]
       /\ lastCall' = StepOf("rename_done", tasks[t], <<>>)
       /\ UNCHANGED <<scenario, calls, serial>>

\* EmbedFactory.build completes and the call returns the notification
EmbedDone(t) ==
    /\ tasks[t].pc = "embed"
    /\ tasks' = [tasks EXCEPT ![t] = IdleTask]
    /\ lastCall' = StepOf("parse_return", tasks[t], <<>>)
    /\ UNCHANGED <<server_counts, player_states, voice_channels, scenario, calls, serial>>

NextAsync ==
    \/ \E t \in Tasks, server_key \in Keys, found \in LineMatches :
          StartParse(t, server_key, found)
    \/ \E t \in Tasks : RenameDone(t)
    \/ \E t \in Tasks : EmbedDone(t)

SpecAsync == Init /\ [][NextAsync]_vars

\* ------------------------------------------------------------------ claims
StatesOf(states, server_key) ==
    IF server_key \in DOMAIN states THEN states[server_key] ELSE EmptyStates

CountsOf(counts, server_key) ==
    IF server_key \in DOMAIN counts THEN counts[server_key] ELSE EmptyCounts

IsParse(call) == call.op = "parse_lifecycle_event"

Counts(queue_count, player_count) ==
    [queue_count |-> queue_count, player_count |-> player_count]

\* C1: after every call the stored counters of every key equal the formulas
\* over its sets: queue_count = max(0, |queued| - |joined| - |disconnected_pre|)
\* and player_count = max(0, |joined| - |disconnected_post|).
C1_CountersFollowSets ==
    \A k \in DOMAIN server_counts \cap DOMAIN player_states :
        LET st == player_states[k]
            qc == Cardinality(st.players_queued) - Cardinality(st.players_joined)
                  - Cardinality(st.players_disconnected_pre)
            pc == Cardinality(st.players_joined) - Cardinality(st.players_disconnected_post)
        IN server_counts[k] = Counts(IF qc < 0 THEN 0 ELSE qc, IF pc < 0 THEN 0 ELSE pc)

\* C2: from an empty key, QueueJoin(A), QueueJoin(B), PlayerJoined(A) give
\* get_live_counts = (queue 1, players 1); a post-join disconnect of A then gives
\* (1, 0); a pre-join disconnect of B then gives (0, 0).
C2_FormulaScenario ==
    LET got == get_live_counts(World, ScenarioKey).ret
    IN /\ scenario = 3 => got = <<Counts(1, 1)>>
       /\ scenario = 4 => got = <<Counts(1, 0)>>
       /\ scenario = 5 => got = <<Counts(0, 0)>>

\* C3: in every reachable state, for every key, queue_count >= 0 and
\* player_count >= 0.
C3_CountsNonNegative ==
    \A k \in DOMAIN server_counts :
        server_counts[k].queue_count >= 0 /\ server_counts[k].player_count >= 0

\* a parse has left a key whose unclamped queue formula is negative
C3_ClampReached ==
    /\ IsParse(lastCall)
    /\ lastCall.server_key \in DOMAIN player_states \cap DOMAIN server_counts
    /\ LET st == player_states[lastCall.server_key]
       IN /\ Cardinality(st.players_queued) - Cardinality(st.players_joined)
             - Cardinality(st.players_disconnected_pre) < 0
          /\ server_counts[lastCall.server_key].queue_count = 0

\* C4: a disconnect-pattern-A line for P is a post-join disconnect when P is in
\* players_joined (P is added to players_disconnected_post and to no other set),
\* and otherwise a pre-join disconnect when P is in players_queued (P is added to
\* players_disconnected_pre and to no other set).
C4_DisconnectADisambiguation ==
    [][(IsParse(lastCall') /\ lastCall'.pattern = "disconnect_post_join") =>
        LET k == lastCall'.server_key
            P == lastCall'.player_id
            old == StatesOf(player_states, k)
            new == player_states'[k]
        IN /\ P \in old.players_joined =>
                /\ lastCall'.event_type = "d1"
                /\ new = [old EXCEPT !.players_disconnected_post = @ \cup {P}]
           /\ (P \notin old.players_joined /\ P \in old.players_queued) =>
                /\ lastCall'.event_type = "d2"
                /\ new = [old EXCEPT !.players_disconnected_pre = @ \cup {P}]]_vars

\* a pattern-A line was just taken as a pre-join disconnect of a queued player,
\* and a pattern-A line has been taken as a post-join disconnect before
C4_BothClassifications ==
    /\ IsParse(lastCall)
    /\ lastCall.pattern = "disconnect_post_join"
    /\ lastCall.event_type = "d2"
    /\ lastCall.player_id \in player_states[lastCall.server_key].players_disconnected_pre
    /\ \E k \in DOMAIN player_states : player_states[k].players_disconnected_post # {}

\* C5: a line that matches only disconnect pattern B never adds to
\* players_disconnected_post and returns no notification; it adds the id to
\* players_disconnected_pre exactly when the id is queued and not joined, and
\* otherwise changes no set.
C5_PatternBOnlyPreJoin ==
    [][(IsParse(lastCall') /\ lastCall'.pattern = "disconnect_pre_join") =>
        LET k == lastCall'.server_key
            P == lastCall'.player_id
            old == StatesOf(player_states, k)
            new == player_states'[k]
        IN /\ lastCall'.ret = <<>>
           /\ new.players_disconnected_post = old.players_disconnected_post
           /\ new = IF P \in old.players_queued /\ P \notin old.players_joined
                    THEN [old EXCEPT !.players_disconnected_pre = @ \cup {P}]
                    ELSE old]_vars

\* a pattern-B line has just moved a queued player to players_disconnected_pre
C5_PatternBAccepted ==
    /\ IsParse(lastCall)
    /\ lastCall.pattern = "disconnect_pre_join"
    /\ lastCall.event_type = "d2"
    /\ lastCall.player_id \in player_states[lastCall.server_key].players_disconnected_pre

\* C6: a call classified PlayerJoined returns exactly one join notification, a
\* call classified DisconnectPostJoin exactly one leave notification, and a call
\* classified QueueJoin or DisconnectPreJoin returns none.
C6_NotificationPerEvent ==
    IsParse(lastCall) =>
        /\ lastCall.event_type = "j2" =>
              Len(lastCall.ret) = 1 /\ lastCall.ret[1].event_type = "player_join"
        /\ lastCall.event_type = "d1" =>
              Len(lastCall.ret) = 1 /\ lastCall.ret[1].event_type = "player_leave"
        /\ lastCall.event_type \in {"jq", "d2"} => lastCall.ret = <<>>

\* a post-join disconnect has just returned its notification
C6_LeaveReturned ==
    /\ IsParse(lastCall)
    /\ lastCall.event_type = "d1"
    /\ Len(lastCall.ret) = 1

\* C7: applying the same line twice in a row to a key leaves the counters after
\* the second application equal to the counters after the first.  (Two calls
\* with the same line have the same matched pattern and the same captured id.)
C7_SameLineTwice ==
    [][(IsParse(lastCall') /\ lastCall'.repeat) =>
        server_counts'[lastCall'.server_key] = server_counts[lastCall'.server_key]]_vars

\* a line that classifies as an event has just been applied a second time
C7_EventRepeated ==
    /\ IsParse(lastCall)
    /\ lastCall.repeat
    /\ lastCall.event_type \in {"jq", "j2", "d1", "d2"}

\* C8: between two resets of a key no call removes a player id from any of the
\* key's four sets.
C8_SetsOnlyGrow ==
    [][\A k \in DOMAIN player_states :
          \/ lastCall'.op = "reset_server_counts" /\ lastCall'.server_key = k
          \/ /\ k \in DOMAIN player_states'
             /\ player_states[k].players_queued \subseteq player_states'[k].players_queued
             /\ player_states[k].players_joined \subseteq player_states'[k].players_joined
             /\ player_states[k].players_disconnected_pre
                    \subseteq player_states'[k].players_disconnected_pre
             /\ player_states[k].players_disconnected_post
                    \subseteq player_states'[k].players_disconnected_post]_vars

\* a joined player has just disconnected and is still in players_joined
C8_LeaverStillJoined ==
    /\ IsParse(lastCall)
    /\ lastCall.event_type = "d1"
    /\ LET st == player_states[lastCall.server_key]
       IN lastCall.player_id \in st.players_joined \cap st.players_disconnected_post

\* the world in which no key was ever used
FreshWorld == WorldOf(<<>>, <<>>, KnownGuilds)

\* the search results of a line that matches pattern and captures player_id
FoundOf(pattern, player_id) ==
    [queue_join |-> IF pattern = "queue_join" THEN player_id ELSE NoMatch,
     player_joined |-> IF pattern = "player_joined" THEN player_id ELSE NoMatch,
     disconnect_post_join |-> IF pattern = "disconnect_post_join" THEN player_id ELSE NoMatch,
     disconnect_pre_join |-> IF pattern \in {"disconnect_post_join", "disconnect_pre_join"}
                             THEN player_id ELSE NoMatch]

\* C9: after reset_server_counts(key), get_live_counts(key) returns (0, 0) and
\* the key is as a never-used key, so the next line on it gives the sets,
\* counters, notification and refresh request it gives on a never-used key; a
\* reset of a key that does not exist raises nothing and changes nothing.
C9_ResetGivesFreshKey ==
    [][/\ lastCall'.op = "reset_server_counts" =>
            LET k == lastCall'.server_key
            IN /\ lastCall'.raised = "None"
               /\ get_live_counts(WorldOf(server_counts', player_states', voice_channels'), k).ret
                      = <<Counts(0, 0)>>
               /\ k \notin DOMAIN server_counts' \cup DOMAIN player_states'
               /\ k \notin DOMAIN server_counts \cup DOMAIN player_states =>
                      /\ server_counts' = server_counts
                      /\ player_states' = player_states
                      /\ voice_channels' = voice_channels
       /\ (/\ lastCall.op = "reset_server_counts"
           /\ IsParse(lastCall')
           /\ lastCall'.server_key = lastCall.server_key) =>
            LET k == lastCall'.server_key
                fresh == parse_lifecycle_event(
                             FreshWorld, FoundOf(lastCall'.pattern, lastCall'.player_id), k)
            IN /\ FoundOf(lastCall'.pattern, lastCall'.player_id) \in LineMatches
               /\ player_states'[k] = fresh.w.player_states[k]
               /\ server_counts'[k] = fresh.w.server_counts[k]
               /\ lastCall'.ret = fresh.ret
               /\ lastCall'.refresh = fresh.w.refresh
               /\ lastCall'.event_type = fresh.event_type
               /\ lastCall'.raised = fresh.raised]_vars

\* a key that had counted somebody has just been reset: the display still shows
\* the old counts and both dictionaries have lost the key
C9_UsedKeyReset ==
    /\ lastCall.op = "reset_server_counts"
    /\ lastCall.server_key = ScenarioKey
    /\ voice_channels[1][2] # Label(0, 0)
    /\ ScenarioKey \notin DOMAIN server_counts \cup DOMAIN player_states

\* C10: a call on a line that matches none of the four patterns leaves the four
\* sets and both counters of the key unchanged, requests no display refresh and
\* returns no notification.
C10_UnknownLineNoEffect ==
    [][(IsParse(lastCall') /\ lastCall'.pattern = "none") =>
        LET k == lastCall'.server_key
        IN /\ StatesOf(player_states', k) = StatesOf(player_states, k)
           /\ CountsOf(server_counts', k) = CountsOf(server_counts, k)
           /\ voice_channels' = voice_channels
           /\ lastCall'.refresh = <<>>
           /\ lastCall'.ret = <<>>
           /\ lastCall'.raised = "None"]_vars

\* an unmatched line has just been applied to a key that already tracks a player
C10_UnknownLineOnUsedKey ==
    /\ IsParse(lastCall)
    /\ lastCall.pattern = "none"
    /\ StatesOf(player_states, lastCall.server_key).players_queued # {}

\* C11: a disconnect line (pattern A or B) whose id is in neither players_joined
\* nor players_queued leaves the four sets and both stored counters unchanged,
\* returns no notification and raises nothing.
C11_UnknownDisconnectSkipped ==
    [][(/\ IsParse(lastCall')
        /\ lastCall'.pattern \in {"disconnect_post_join", "disconnect_pre_join"}
        /\ LET old == StatesOf(player_states, lastCall'.server_key)
           IN lastCall'.player_id \notin old.players_joined \cup old.players_queued) =>
        LET k == lastCall'.server_key
        IN /\ StatesOf(player_states', k) = StatesOf(player_states, k)
           /\ CountsOf(server_counts', k) = CountsOf(server_counts, k)
           /\ lastCall'.ret = <<>>
           /\ lastCall'.raised = "None"]_vars

\* C12: a PlayerJoined line for an id already in players_joined, and a post-join
\* disconnect line for an id already in players_disconnected_post, return no
\* notification.
C12_DuplicateNoNotification ==
    [][(/\ IsParse(lastCall')
        /\ LET old == StatesOf(player_states, lastCall'.server_key)
           IN \/ /\ lastCall'.pattern = "player_joined"
                 /\ lastCall'.player_id \in old.players_joined
              \/ /\ lastCall'.pattern = "disconnect_post_join"
                 /\ lastCall'.player_id \in old.players_disconnected_post) =>
        lastCall'.ret = <<>>]_vars

\* C13: every call that adds a player id to one of the four sets recomputes the
\* counters and requests, before it returns, one display refresh carrying the
\* recomputed (player_count, queue_count).
C13_EveryEventRefreshes ==
    (IsParse(lastCall) /\ lastCall.event_type \in {"jq", "j2", "d1", "d2"}) =>
        LET k == lastCall.server_key
            st == player_states[k]
            qc == Cardinality(st.players_queued) - Cardinality(st.players_joined)
                  - Cardinality(st.players_disconnected_pre)
            pc == Cardinality(st.players_joined) - Cardinality(st.players_disconnected_post)
            queue_count == IF qc < 0 THEN 0 ELSE qc
            player_count == IF pc < 0 THEN 0 ELSE pc
        IN /\ server_counts[k] = Counts(queue_count, player_count)
           /\ lastCall.refresh = <<<<player_count, queue_count>>>>

\* C14: get_live_counts never fails; for a key never seen it creates the empty
\* state and returns (0, 0); it returns the stored counters as a copy, so a
\* caller that writes into the returned value does not change the stored
\* counters; it changes no set and no counter of an existing key.
C14_GetLiveCountsSnapshot ==
    [][/\ lastCall'.op = "get_live_counts" =>
            LET k == lastCall'.server_key
            IN /\ lastCall'.raised = "None"
               /\ lastCall'.ret = <<CountsOf(server_counts, k)>>
               /\ k \notin DOMAIN server_counts \cup DOMAIN player_states =>
                      /\ lastCall'.ret = <<Counts(0, 0)>>
                      /\ server_counts'[k] = EmptyCounts
                      /\ player_states'[k] = EmptyStates
               /\ \A e \in DOMAIN server_counts : server_counts'[e] = server_counts[e]
               /\ \A e \in DOMAIN player_states : player_states'[e] = player_states[e]
               /\ voice_channels' = voice_channels
       /\ lastCall'.op = "caller_edit" =>
            /\ server_counts' = server_counts
            /\ player_states' = player_states
            /\ lastCall'.ret # <<server_counts'[lastCall'.server_key]>>]_vars

\* a caller has written into the counters get_live_counts returned for a key
\* that counts a player, and the stored counters differ from what it holds
C14_CallerEdited ==
    /\ lastCall.op = "caller_edit"
    /\ server_counts[lastCall.server_key].player_count > 0
    /\ lastCall.ret[1].queue_count # server_counts[lastCall.server_key].queue_count

\* how many ids the sets of new hold that the sets of old do not
Growth(old, new) ==
    Cardinality(new.players_queued \ old.players_queued)
    + Cardinality(new.players_joined \ old.players_joined)
    + Cardinality(new.players_disconnected_pre \ old.players_disconnected_pre)
    + Cardinality(new.players_disconnected_post \ old.players_disconnected_post)

\* C15: classification is first-match-wins in the order queue join, player
\* joined, disconnect A, disconnect B, and a single call adds at most one id to
\* at most one of the four sets, also when the line matches several patterns.
C15_FirstMatchWins ==
    [][IsParse(lastCall') =>
        LET k == lastCall'.server_key
        IN /\ <<lastCall'.pattern, lastCall'.player_id>> = lastCall'.first
           /\ Growth(StatesOf(player_states, k), player_states'[k]) <= 1]_vars

\* a line that matches the queue-join pattern and a later pattern has been
\* handled as a queue join of a player who was already registered
C15_SeveralPatternsMatched ==
    /\ IsParse(lastCall)
    /\ lastCall.several
    /\ lastCall.pattern = "queue_join"
    /\ lastCall.player_id \in player_states[lastCall.server_key].players_queued
    /\ player_states[lastCall.server_key].players_joined # {}

\* C17: a call on key K leaves the four sets and both counters of every other
\* key unchanged.
C17_KeysIndependent ==
    [][\A k \in Keys \ {lastCall'.server_key} :
          /\ (k \in DOMAIN server_counts') = (k \in DOMAIN server_counts)
          /\ (k \in DOMAIN player_states') = (k \in DOMAIN player_states)
          /\ CountsOf(server_counts', k) = CountsOf(server_counts, k)
          /\ StatesOf(player_states', k) = StatesOf(player_states, k)]_vars

\* a key that had counted somebody has just been reset while the other key
\* still tracks a player
C17_OtherKeyKept ==
    /\ lastCall.op = "reset_server_counts"
    /\ lastCall.server_key = ScenarioKey
    /\ voice_channels[1][2] # Label(0, 0)
    /\ \E k \in DOMAIN player_states \ {ScenarioKey} :
          /\ player_states[k].players_joined # {}
          /\ k \in DOMAIN server_counts
          /\ server_counts[k].player_count > 0

\* C19 as stated: once an id is in players_disconnected_pre, no later line before
\* the next reset adds it to players_joined or to players_disconnected_post, so
\* players_disconnected_pre and players_joined stay disjoint.
C19_PreJoinTerminal ==
    [][\A k \in DOMAIN player_states :
          \/ lastCall'.op = "reset_server_counts" /\ lastCall'.server_key = k
          \/ /\ \A P \in player_states[k].players_disconnected_pre :
                   /\ P \in player_states'[k].players_joined
                          => P \in player_states[k].players_joined
                   /\ P \in player_states'[k].players_disconnected_post
                          => P \in player_states[k].players_disconnected_post
             /\ player_states'[k].players_disconnected_pre
                    \cap player_states'[k].players_joined = {}]_vars

\* C19 as amended: an id in players_disconnected_pre stays there until the next
\* reset; only a PlayerJoined line for that id adds it to players_joined, and
\* no line adds it to players_disconnected_post while it is not in
\* players_joined.
C19_PreJoinNotTerminal ==
    [][\A k \in DOMAIN player_states :
          \/ lastCall'.op = "reset_server_counts" /\ lastCall'.server_key = k
          \/ \A P \in player_states[k].players_disconnected_pre :
                /\ P \in player_states'[k].players_disconnected_pre
                /\ P \in player_states'[k].players_joined \ player_states[k].players_joined =>
                      /\ IsParse(lastCall')
                      /\ lastCall'.server_key = k
                      /\ <<lastCall'.pattern, lastCall'.player_id>> = <<"player_joined", P>>
                /\ P \in player_states'[k].players_disconnected_post
                         \ player_states[k].players_disconnected_post =>
                      P \in player_states[k].players_joined]_vars

\* a player who left the queue has registered afterwards and has now
\* disconnected as a joined player
C19_LeftQueueThenJoined ==
    /\ IsParse(lastCall)
    /\ lastCall.event_type = "d1"
    /\ lastCall.player_id \in player_states[lastCall.server_key].players_disconnected_pre

\* C20 as stated: players_joined is a subset of players_queued in every
\* reachable state.
C20_JoinedSubsetOfQueued ==
    \A k \in DOMAIN player_states :
        player_states[k].players_joined \subseteq player_states[k].players_queued

\* C20 as amended: a PlayerJoined line adds its id to players_joined, and to no
\* other set, whether or not the id is in players_queued.
C20_JoinedWithoutQueue ==
    [][(IsParse(lastCall') /\ lastCall'.pattern = "player_joined") =>
        LET k == lastCall'.server_key
            P == lastCall'.player_id
            old == StatesOf(player_states, k)
        IN /\ lastCall'.event_type = "j2"
           /\ player_states'[k] = [old EXCEPT !.players_joined = @ \cup {P}]]_vars

\* a player who never queued has just registered
C20_RegisteredUnqueued ==
    /\ IsParse(lastCall)
    /\ lastCall.event_type = "j2"
    /\ LET st == player_states[lastCall.server_key]
       IN lastCall.player_id \in st.players_joined \ st.players_queued

\* the coroutines that are between their start and their return
InFlight == {t \in Tasks : tasks[t].pc # "idle"}

\* C16: handling one line has no internal suspension, the rename and
\* the notification building start only after the call has returned, so no two
\* calls for the same key are between their start and their return at a time.
C16_NoInternalSuspension ==
    \A t \in InFlight, u \in InFlight :
        t # u => tasks[t].server_key # tasks[u].server_key

\* C18: the membership test and the insertion of a disconnect line are one
\* step: an id enters players_disconnected_post only in a step that finds it in
\* players_joined, and players_disconnected_pre only in a step that finds it in
\* players_queued and not in players_joined; the steps after an await change no
\* set; so the sets are always those the same lines give when each call runs to
\* its end, in the order the calls started.
C18_ClassifyAndInsertAtomic ==
    [][/\ \A k \in DOMAIN player_states' :
            LET old == StatesOf(player_states, k)
                new == player_states'[k]
            IN /\ \A P \in new.players_disconnected_post \ old.players_disconnected_post :
                     P \in old.players_joined
               /\ \A P \in new.players_disconnected_pre \ old.players_disconnected_pre :
                     P \in old.players_queued \ old.players_joined
       /\ lastCall'.op \in {"rename_done", "parse_return"} => player_states' = player_states
       /\ player_states' = serial'.player_states]_vars

\* a pre-join disconnect awaits its rename while the PlayerJoined line of the
\* same player has been handled
C18_JoinedDuringDisconnect ==
    \E t \in InFlight :
        /\ tasks[t].event_type = "d2"
        /\ tasks[t].pc = "rename"
        /\ tasks[t].player_id \in player_states[tasks[t].server_key].players_joined

\* C21: after every count update, queue_count is the number of players still
\* waiting: the ids in players_queued that are in neither players_joined nor
\* players_disconnected_pre.
C21_QueueCountIsWaiting ==
    (IsParse(lastCall) /\ lastCall.refresh # <<>>) =>
        LET k == lastCall.server_key
            st == player_states[k]
        IN server_counts[k].queue_count =
              Cardinality(st.players_queued
                          \ (st.players_joined \cup st.players_disconnected_pre))

\* C22: once every call in flight for a key has completed, the counter channel
\* of the key's guild is named after the counters stored at that moment.
C22_LastNameIsCurrent ==
    \A k \in DOMAIN server_counts :
        (InFlight = {} /\ k[1] \in DOMAIN voice_channels) =>
            \A i \in DOMAIN voice_channels[k[1]] :
                IsCounterChannel(voice_channels[k[1]][i]) =>
                    voice_channels[k[1]][i] =
                        Label(server_counts[k].player_count, server_counts[k].queue_count)

\* C23: in every state of every key, players_disconnected_post is a subset of
\* players_joined and players_disconnected_pre is a subset of players_queued.
C23_DisconnectedWithinSource ==
    \A k \in DOMAIN player_states :
        /\ player_states[k].players_disconnected_post \subseteq player_states[k].players_joined
        /\ player_states[k].players_disconnected_pre \subseteq player_states[k].players_queued

\* a disconnect has just been handled on a key that now holds a player who
\* left after joining and a player who left the queue
C23_BothKindsLeft ==
    /\ IsParse(lastCall)
    /\ lastCall.event_type \in {"d1", "d2"}
    /\ LET st == player_states[lastCall.server_key]
       IN /\ st.players_disconnected_post # {}
          /\ st.players_disconnected_pre # {}

====
